---- MODULE Spec2Model ----
(***************************************************************************)
(* `algo run`: the input pre-pass, the remote call and the rendering of    *)
(* the response, as src/algo/run.rs performs them.                         *)
(*                                                                         *)
(* Strings and byte vectors are sequences of bytes (0..255).  Command-line *)
(* tokens are TLA+ strings; TokBytes gives the bytes of a token that is    *)
(* used as literal data.                                                   *)
(***************************************************************************)
EXTENDS Integers, Sequences, FiniteSets, TLC

\* ------------------------------------------------------------------ bounds

\* Input-selecting flags one argument list holds at most.
MaxFlags == 2

\* Length of a file's or of standard input's content, in bytes, at most.
MaxLen == 2

\* ------------------------------------------------------------------- bytes

NL == 10
SP == 32

Digits == 48..57
Whitespace == {32, 10, 13, 9}
HexDigits == (48..57) \cup (65..70) \cup (97..102)

RECURSIVE Concat(_)
\* The concatenation of a sequence of byte sequences.
Concat(ss) == IF ss = <<>> THEN <<>> ELSE Head(ss) \o Concat(Tail(ss))

\* The byte sequences over alphabet A of length at most n.
SeqsUpTo(A, n) == UNION {[1..k -> A] : k \in 0..n}

\* ------------------------------------------------ String::from_utf8 (l.199)

IsCont(b) == b >= 128 /\ b <= 191

RECURSIVE Utf8From(_, _)
\* bs[i..] is a sequence of well-formed UTF-8 encodings.
Utf8From(bs, i) ==
  IF i > Len(bs) THEN TRUE
  ELSE LET b == bs[i]
           has(k) == i + k <= Len(bs)
           cont(k) == has(k) /\ IsCont(bs[i + k])
           in(k, lo, hi) == has(k) /\ bs[i + k] >= lo /\ bs[i + k] <= hi
       IN  IF b <= 127 THEN Utf8From(bs, i + 1)
           ELSE IF b >= 194 /\ b <= 223 THEN cont(1) /\ Utf8From(bs, i + 2)
           ELSE IF b = 224 THEN in(1, 160, 191) /\ cont(2) /\ Utf8From(bs, i + 3)
           ELSE IF b = 237 THEN in(1, 128, 159) /\ cont(2) /\ Utf8From(bs, i + 3)
           ELSE IF b >= 225 /\ b <= 239 THEN cont(1) /\ cont(2) /\ Utf8From(bs, i + 3)
           ELSE IF b = 240 THEN in(1, 144, 191) /\ cont(2) /\ cont(3) /\ Utf8From(bs, i + 4)
           ELSE IF b >= 241 /\ b <= 243 THEN cont(1) /\ cont(2) /\ cont(3) /\ Utf8From(bs, i + 4)
           ELSE IF b = 244 THEN in(1, 128, 143) /\ cont(2) /\ cont(3) /\ Utf8From(bs, i + 4)
           ELSE FALSE

\* String::from_utf8(bytes) is Ok.
ValidUtf8(bs) == Utf8From(bs, 1)

\* --------------------------------------------------- Json::from_str (l.200)
\* A recogniser of the JSON grammar as rustc_serialize's parser accepts it.
\* Each Parse* operator takes the text and the position of the next byte and
\* gives the position after what it accepted, or 0 when it rejects.

At(s, i) == IF i >= 1 /\ i <= Len(s) THEN s[i] ELSE -1

RECURSIVE SkipWs(_, _)
SkipWs(s, i) == IF At(s, i) \in Whitespace THEN SkipWs(s, i + 1) ELSE i

RECURSIVE SkipDigits(_, _)
SkipDigits(s, i) == IF At(s, i) \in Digits THEN SkipDigits(s, i + 1) ELSE i

\* parse_number: -? (0 | [1-9][0-9]*) (. [0-9]+)? ([eE] [+-]? [0-9]+)?
ParseNumber(s, i) ==
  LET i1 == IF At(s, i) = 45 THEN i + 1 ELSE i
      i2 == IF At(s, i1) = 48
              THEN (IF At(s, i1 + 1) \in Digits THEN 0 ELSE i1 + 1)
              ELSE IF At(s, i1) \in 49..57 THEN SkipDigits(s, i1 + 1) ELSE 0
      i3 == IF i2 = 0 THEN 0
            ELSE IF At(s, i2) = 46
              THEN (IF At(s, i2 + 1) \in Digits THEN SkipDigits(s, i2 + 1) ELSE 0)
              ELSE i2
      e1 == IF At(s, i3 + 1) \in {43, 45} THEN i3 + 2 ELSE i3 + 1
  IN  IF i3 = 0 THEN 0
      ELSE IF At(s, i3) \in {101, 69}
        THEN (IF At(s, e1) \in Digits THEN SkipDigits(s, e1) ELSE 0)
        ELSE i3

RECURSIVE ParseStrBody(_, _)
\* parse_str after the opening quote: up to and including the closing quote.
ParseStrBody(s, i) ==
  LET c == At(s, i)
  IN  IF c = -1 THEN 0
      ELSE IF c = 34 THEN i + 1
      ELSE IF c = 92
        THEN IF At(s, i + 1) \in {34, 92, 47, 98, 102, 110, 114, 116}
               THEN ParseStrBody(s, i + 2)
             ELSE IF At(s, i + 1) = 117
                     /\ \A k \in 2..5 : At(s, i + k) \in HexDigits
               THEN ParseStrBody(s, i + 6)
             ELSE 0
      ELSE ParseStrBody(s, i + 1)

\* parse_ident: the literal lit at position i.
ParseIdent(s, i, lit) ==
  IF \A k \in 1..Len(lit) : At(s, i + k - 1) = lit[k] THEN i + Len(lit) ELSE 0

RECURSIVE ParseValue(_, _)
RECURSIVE ParseElems(_, _)
RECURSIVE ParseMembers(_, _)

\* After a value of an array: `,` value ... `]`.
ParseElems(s, i) ==
  LET j == SkipWs(s, i)
  IN  IF At(s, j) = 93 THEN j + 1
      ELSE IF At(s, j) = 44
        THEN LET v == ParseValue(s, SkipWs(s, j + 1))
             IN  IF v = 0 THEN 0 ELSE ParseElems(s, v)
      ELSE 0

\* A member of an object, `"key" : value`, and what follows it.
ParseMembers(s, i) ==
  LET j == SkipWs(s, i)
      k == IF At(s, j) = 34 THEN ParseStrBody(s, j + 1) ELSE 0
      c == IF k = 0 THEN 0 ELSE SkipWs(s, k)
      v == IF c # 0 /\ At(s, c) = 58 THEN ParseValue(s, SkipWs(s, c + 1)) ELSE 0
      e == IF v = 0 THEN 0 ELSE SkipWs(s, v)
  IN  IF e = 0 THEN 0
      ELSE IF At(s, e) = 125 THEN e + 1
      ELSE IF At(s, e) = 44 THEN ParseMembers(s, e + 1)
      ELSE 0

ParseValue(s, i) ==
  LET c == At(s, i)
  IN  IF c = 110 THEN ParseIdent(s, i, <<110, 117, 108, 108>>)
      ELSE IF c = 116 THEN ParseIdent(s, i, <<116, 114, 117, 101>>)
      ELSE IF c = 102 THEN ParseIdent(s, i, <<102, 97, 108, 115, 101>>)
      ELSE IF c \in Digits \cup {45} THEN ParseNumber(s, i)
      ELSE IF c = 34 THEN ParseStrBody(s, i + 1)
      ELSE IF c = 91
        THEN LET j == SkipWs(s, i + 1)
             IN  IF At(s, j) = 93 THEN j + 1
                 ELSE LET v == ParseValue(s, j)
                      IN  IF v = 0 THEN 0 ELSE ParseElems(s, v)
      ELSE IF c = 123
        THEN LET j == SkipWs(s, i + 1)
             IN  IF At(s, j) = 125 THEN j + 1 ELSE ParseMembers(s, j)
      ELSE 0

\* Json::from_str(data) is Ok: one value, whitespace around it, nothing after.
ParsesAsJson(s) ==
  LET v == ParseValue(s, SkipWs(s, 1))
  IN  v # 0 /\ SkipWs(s, v) = Len(s) + 1

\* ------------------------------------------------------------------ tokens

\* The input-selecting option a token spells, or "none" (the match at l.92-101).
InputFlagKind(flag) ==
  CASE flag \in {"-d", "--data"} -> "data"
    [] flag \in {"-j", "--json"} -> "json"
    [] flag \in {"-t", "--text"} -> "text"
    [] flag \in {"-b", "--binary"} -> "binary"
    [] flag \in {"-D", "--data-file"} -> "data-file"
    [] flag \in {"-J", "--json-file"} -> "json-file"
    [] flag \in {"-T", "--text-file"} -> "text-file"
    [] flag \in {"-B", "--binary-file"} -> "binary-file"
    [] OTHER -> "none"

InputFlags ==
  {"-d", "--data", "-j", "--json", "-t", "--text", "-b", "--binary",
   "-D", "--data-file", "-J", "--json-file", "-T", "--text-file",
   "-B", "--binary-file"}

\* Tokens that are no option: data, a path, an algorithm name, a number.
Words == {"-", "1", "f", "u/a"}

\* The output options of USAGE (l.46-55), by the field of Args each one sets.
OptionName(tok) ==
  CASE tok = "--debug" -> "debug"
    [] tok = "--response-body" -> "response_body"
    [] tok = "--response" -> "response"
    [] tok \in {"-s", "--silence"} -> "silence"
    [] tok \in {"-m", "--meta"} -> "meta"
    [] tok \in {"-o", "--output"} -> "output"
    [] tok = "--timeout" -> "timeout"
    [] OTHER -> "none"

OptionTokens ==
  {"--debug", "--response-body", "--response", "-s", "--silence", "-m", "--meta",
   "-o", "--output", "--timeout"}

\* The program's name and the command, the first two tokens of USAGE (l.15).
Command == <<"algo", "run">>
CommandTokens == {"algo", "run"}

Tokens == InputFlags \cup OptionTokens \cup Words \cup CommandTokens

\* The bytes of a token (String::as_bytes / into_bytes, l.93 and l.96).
TokBytes(tok) ==
  CASE tok = "-" -> <<45>>
    [] tok = "1" -> <<49>>
    [] tok = "f" -> <<102>>
    [] tok = "u/a" -> <<117, 47, 97>>
    [] tok = "-j" -> <<45, 106>>
    [] tok = "[1]" -> <<91, 49, 93>>
    [] tok = "true" -> <<116, 114, 117, 101>>
    [] tok = "tru" -> <<116, 114, 117>>
    [] tok = "1 1" -> <<49, 32, 49>>

\* The end of the argument list, where next_arg finds no token.
NoArg == "<end>"

\* ---------------------------------------------------------------- InputData

Text(data) == [kind |-> "Text", data |-> data]
Json(data) == [kind |-> "Json", data |-> data]
Binary(data) == [kind |-> "Binary", data |-> data]

\* What a step of cmd_main comes to: a value, or the die! that ends the run.
Ok(v) == [err |-> "none", val |-> <<v>>]
Die(msg) == [err |-> msg, val |-> <<>>]

\* A reader's outcome when read to its end: its bytes, or an I/O error.
ReadOk(bytes) == [ok |-> TRUE, bytes |-> bytes]
ReadErr == [ok |-> FALSE, bytes |-> <<>>]

\* auto with the text test first: a JSON document is kept as Text.
auto_TextFirst(r) ==
  IF ~r.ok THEN Die("read_error")
  ELSE IF ValidUtf8(r.bytes) THEN Ok(Text(r.bytes))
  ELSE IF ParsesAsJson(r.bytes) THEN Ok(Json(r.bytes))
  ELSE Ok(Binary(r.bytes))

\* InputData::auto (l.193-206).
auto(r) ==
  IF ~r.ok THEN Die("read_error")
  ELSE IF ValidUtf8(r.bytes)
    THEN (IF ParsesAsJson(r.bytes) THEN Ok(Json(r.bytes)) ELSE Ok(Text(r.bytes)))
    ELSE Ok(Binary(r.bytes))

\* InputData::text (l.208-214): read_to_string fails on bytes that are not UTF-8.
text(r) ==
  IF r.ok /\ ValidUtf8(r.bytes) THEN Ok(Text(r.bytes)) ELSE Die("read_error")

\* InputData::json (l.216-222).
json(r) ==
  IF r.ok /\ ValidUtf8(r.bytes) THEN Ok(Json(r.bytes)) ELSE Die("read_error")

\* InputData::binary (l.224-230).
binary(r) ==
  IF r.ok THEN Ok(Binary(r.bytes)) ELSE Die("read_error")

\* get_src (l.285-290) and open_file (l.292-299): the source a path names.
\* opened: whether File::open succeeds.
get_src(src, opened) ==
  IF src = "-" THEN Ok("stdin")
  ELSE IF opened THEN Ok("file") ELSE Die("open_error")


\* ------------------------------------------- Docopt::new(USAGE) ... decode()

\* Args (l.66-76) as they are before the options are parsed.
\* An Option<T> is a sequence: <<>> is None and <<v>> is Some(v).
None == <<>>
Some(v) == <<v>>

NoArgs ==
  [arg_algorithm |-> "", flag_response_body |-> FALSE, flag_response |-> FALSE,
   flag_silence |-> FALSE, flag_meta |-> FALSE, flag_debug |-> FALSE,
   flag_output |-> None, flag_timeout |-> None]

\* --timeout <seconds> decodes into a u32.
IsU32(tok) == tok \in {"1"}
U32Of(tok) == CASE tok = "1" -> 1

RECURSIVE DocoptScan(_, _, _)
\* The options and positional arguments of toks[i..], collected left to right:
\* pos the positionals, seen the options met, bad a malformed argument list.
DocoptScan(toks, i, acc) ==
  IF i > Len(toks) \/ acc.bad THEN acc
  ELSE LET tok == toks[i]
           name == OptionName(tok)
       IN  IF tok \in InputFlags
             THEN [acc EXCEPT !.bad = TRUE]
           ELSE IF name = "none"
             THEN DocoptScan(toks, i + 1, [acc EXCEPT !.pos = Append(@, tok)])
           ELSE IF name \in acc.seen
             THEN [acc EXCEPT !.bad = TRUE]
           ELSE IF name \in {"output", "timeout"}
             THEN IF i + 1 > Len(toks) \/ (name = "timeout" /\ ~IsU32(toks[i + 1]))
                    THEN [acc EXCEPT !.bad = TRUE]
                    ELSE DocoptScan(toks, i + 2,
                           [acc EXCEPT !.seen = @ \cup {name},
                                       !.output = IF name = "output" THEN Some(toks[i + 1]) ELSE @,
                                       !.timeout = IF name = "timeout" THEN Some(U32Of(toks[i + 1])) ELSE @])
           ELSE DocoptScan(toks, i + 1, [acc EXCEPT !.seen = @ \cup {name}])

\* Docopt::new(USAGE).and_then(|d| d.argv(other_args).decode()) (l.106-108):
\* argv without its first token must match `run [options] <algorithm>`.
Docopt(other) ==
  LET acc == DocoptScan(other, 2,
               [pos |-> <<>>, seen |-> {}, output |-> None,
                timeout |-> None, bad |-> FALSE])
  IN  IF acc.bad \/ Len(acc.pos) # 2 \/ acc.pos[1] # "run"
        THEN Die("usage")
        ELSE Ok([arg_algorithm |-> acc.pos[2],
                 flag_response_body |-> "response_body" \in acc.seen,
                 flag_response |-> "response" \in acc.seen,
                 flag_silence |-> "silence" \in acc.seen,
                 flag_meta |-> "meta" \in acc.seen,
                 flag_debug |-> "debug" \in acc.seen,
                 flag_output |-> acc.output,
                 flag_timeout |-> acc.timeout])

\* ------------------------------------------------------------- the response

\* A JSON value of a result: a number, or an array of numbers.
JsonNumber(n) == [t |-> "number", n |-> n, elems |-> <<>>]
JsonArray(elems) == [t |-> "array", n |-> 0, elems |-> elems]

RECURSIVE DecimalOf(_)
DecimalOf(n) == IF n < 10 THEN <<48 + n>> ELSE DecimalOf(n \div 10) \o <<48 + (n % 10)>>

RECURSIVE JoinElems(_)
JoinElems(vs) ==
  IF vs = <<>> THEN <<>>
  ELSE IF Len(vs) = 1 THEN DecimalOf(vs[1])
  ELSE DecimalOf(vs[1]) \o <<44>> \o JoinElems(Tail(vs))

\* json.to_string() (l.168): the compact form of the value.
JsonToString(v) ==
  IF v.t = "number" THEN DecimalOf(v.n) ELSE <<91>> \o JoinElems(v.elems) \o <<93>>

\* format!("Completed in {:.1} seconds", duration) (l.163); ms is the duration
\* in milliseconds.
CompletedIn(ms) ==
  LET tenths == (ms + 50) \div 100
  IN  <<67, 111, 109, 112, 108, 101, 116, 101, 100, 32, 105, 110, 32>>
        \o DecimalOf(tenths \div 10) \o <<46>> \o DecimalOf(tenths % 10)
        \o <<32, 115, 101, 99, 111, 110, 100, 115>>

\* format!("{} {}\n{}", version, status, headers) (l.138).
Preamble(response) ==
  response.version \o <<SP>> \o response.status \o <<NL>> \o response.headers

\* The content types with Json sent as text.
MimeOf_JsonAsText(input_data) ==
  CASE input_data.kind = "Text" -> "text/plain"
    [] input_data.kind = "Json" -> "text/plain"
    [] input_data.kind = "Binary" -> "application/octet-stream"

\* The content-type run_algorithm submits a payload under (l.271-275).
MimeOf(input_data) ==
  CASE input_data.kind = "Text" -> "text/plain"
    [] input_data.kind = "Json" -> "application/json"
    [] input_data.kind = "Binary" -> "application/octet-stream"


\* ------------------------------------------------------------------- state

VARIABLES
  pc,             \* where cmd_main is: "scan", "validate", "output", "run",
                  \* "read", "render", or "exit" once the process has ended
  err,            \* the die! that ended the run, "none" while there is none
  input_args,     \* l.84
  other_args,     \* l.85
  args,           \* l.106
  opts,           \* l.117
  output,         \* l.122: the OutputDevice's writer, "stdout" or "file"
  response,       \* l.125: Some(response) once the call has returned
  json_response,  \* l.128
  flags_seen,     \* the input-selecting options the pre-pass has met, in order
  reads,          \* the sources get_src and the readers have opened and read
  created,        \* whether File::create has created (truncated) the output file
  calls,          \* the remote calls made: algorithm, content type, body, options
  events          \* every write to a stream, in program order

vars ==
  <<pc, err, input_args, other_args, args, opts, output, response,
    json_response, flags_seen, reads, created, calls, events>>

\* AlgoOptions::default() (l.117).
DefaultOpts == [stdout |-> FALSE, timeout |-> None]

Init ==
  /\ pc = "scan"
  /\ err = "none"
  /\ input_args = <<>>
  /\ other_args = <<>>
  /\ args = NoArgs
  /\ opts = DefaultOpts
  /\ output = "none"
  /\ response = None
  /\ json_response = <<>>
  /\ flags_seen = <<>>
  /\ reads = <<>>
  /\ created = FALSE
  /\ calls = <<>>
  /\ events = <<>>

\* die!(...): the process ends with the message msg.
Exit(msg) == pc' = "exit" /\ err' = msg

\* ------------------------------------------------ the pre-pass (l.91-103)

StdinRead(rs) == \E i \in 1..Len(rs) : rs[i].src = "stdin" /\ rs[i].opened

\* One arm of the match for an input-selecting option of kind `kind` whose
\* value is val (NoArg at the end of the arguments).  opened: File::open
\* succeeds; rd: what reading the source to its end gives.  Standard input
\* that was read once is at its end.
ScanFlag(kind, val, opened, rd, rs) ==
  LET literal == ReadOk(TokBytes(val))
      src == get_src(val, opened)
      r == IF src.val = <<"stdin">> /\ StdinRead(rs) THEN ReadOk(<<>>) ELSE rd
      entry == [src |-> IF src.err = "none" THEN src.val[1] ELSE "file",
                path |-> val, opened |-> src.err = "none",
                ok |-> src.err = "none" /\ r.ok,
                bytes |-> IF src.err = "none" /\ r.ok THEN r.bytes ELSE <<>>]
      read(res) == [err |-> res.err, val |-> res.val, reads |-> <<entry>>]
  IN  IF val = NoArg THEN [err |-> "missing_arg", val |-> <<>>, reads |-> <<>>]
      ELSE CASE kind = "data" ->
                  [err |-> auto(literal).err, val |-> auto(literal).val,
                   reads |-> <<[src |-> "arg", path |-> val, opened |-> TRUE,
                                ok |-> TRUE, bytes |-> literal.bytes]>>]
             [] kind = "json" ->
                  [err |-> "none", val |-> <<Json(TokBytes(val))>>, reads |-> <<>>]
             [] kind = "text" ->
                  [err |-> "none", val |-> <<Text(TokBytes(val))>>, reads |-> <<>>]
             [] kind = "binary" ->
                  [err |-> "none", val |-> <<Binary(TokBytes(val))>>, reads |-> <<>>]
             [] src.err # "none" ->
                  [err |-> src.err, val |-> <<>>, reads |-> <<entry>>]
             [] kind = "data-file" -> read(auto(r))
             [] kind = "json-file" -> read(json(r))
             [] kind = "text-file" -> read(text(r))
             [] kind = "binary-file" -> read(binary(r))

IsFileFlag(flag) ==
  InputFlagKind(flag) \in {"data-file", "json-file", "text-file", "binary-file"}

\* One iteration of `while let Some(flag) = argv_mut.next()` (l.91-103).  The
\* token and, for an input-selecting option, the token after it come from the
\* argument list.  The argument lists explored: `in.flags` the spellings of
\* the input-selecting options, `in.data` and `in.paths` their values,
\* `in.contents` what a file or standard input holds, and `in.others[n]` the
\* other arguments of a list with n input-selecting options.  The program's
\* name and the command come first in every list (USAGE, l.15).
ScanArg(in) ==
  /\ pc = "scan"
  /\ \E flag \in Tokens :
       IF InputFlagKind(flag) = "none"
         THEN /\ Append(other_args, flag) \in in.others[Len(flags_seen)]
              /\ other_args' = Append(other_args, flag)
              /\ UNCHANGED <<pc, err, input_args, flags_seen, reads>>
         ELSE /\ flag \in in.flags
              /\ Len(other_args) >= Len(Command)
              /\ other_args \in in.others[Len(flags_seen) + 1]
              /\ \E val \in (IF IsFileFlag(flag) THEN in.paths ELSE in.data) \cup {NoArg},
                    opened \in BOOLEAN,
                    rd \in {ReadErr} \cup {ReadOk(b) : b \in in.contents} :
                   LET st == ScanFlag(InputFlagKind(flag), val, opened, rd, reads)
                   IN  /\ flags_seen' =
                            Append(flags_seen, [kind |-> InputFlagKind(flag), val |-> val])
                       /\ reads' = reads \o st.reads
                       /\ input_args' = input_args \o st.val
                       /\ IF st.err = "none"
                            THEN UNCHANGED <<pc, err>>
                            ELSE Exit(st.err)
                       /\ UNCHANGED other_args
  /\ UNCHANGED <<args, opts, output, response, json_response, created, calls, events>>

\* The loop ends with the argument list, and Docopt parses the other
\* arguments (l.105-108); other_args is moved into the parser.
ParseArgs ==
  /\ pc = "scan"
  /\ Len(other_args) >= Len(Command)
  /\ LET d == Docopt(other_args)
     IN  IF d.err = "none"
           THEN /\ args' = d.val[1]
                /\ pc' = "validate"
                /\ UNCHANGED err
           ELSE /\ Exit(d.err)
                /\ UNCHANGED args
  /\ other_args' = <<>>
  /\ UNCHANGED <<input_args, opts, output, response, json_response, flags_seen,
                 reads, created, calls, events>>

\* The validation with the first of several sources taken.
Validate_FirstWins ==
  /\ pc = "validate"
  /\ IF Len(input_args) < 1 THEN Exit("no_input")
     ELSE pc' = "output" /\ UNCHANGED err
  /\ UNCHANGED <<input_args, other_args, args, opts, output, response,
                 json_response, flags_seen, reads, created, calls, events>>

\* Validating args and options (l.110-115).
Validate ==
  /\ pc = "validate"
  /\ IF Len(input_args) < 1 THEN Exit("no_input")
     ELSE IF Len(input_args) > 1 THEN Exit("multiple_input")
     ELSE pc' = "output" /\ UNCHANGED err
  /\ UNCHANGED <<input_args, other_args, args, opts, output, response,
                 json_response, flags_seen, reads, created, calls, events>>

\* The device falling back to standard output when the file cannot be created.
OutputDeviceNew_Fallback(output_dest, fileOk) ==
  IF output_dest # None /\ fileOk THEN Ok("file") ELSE Ok("stdout")

\* OutputDevice::new (l.241-249): fileOk is whether File::create succeeds.
OutputDeviceNew(output_dest, fileOk) ==
  IF output_dest # None
    THEN (IF fileOk THEN Ok("file") ELSE Die("create_error"))
    ELSE Ok("stdout")

\* The execution options and the output device (l.117-122).
OpenOutput ==
  /\ pc = "output"
  /\ opts' = [stdout |-> args.flag_debug, timeout |-> args.flag_timeout]
  /\ \E fileOk \in (IF args.flag_output = None THEN {TRUE} ELSE BOOLEAN) :
       LET dev == OutputDeviceNew(args.flag_output, fileOk)
       IN  IF dev.err = "none"
             THEN /\ output' = dev.val[1]
                  /\ created' = (dev.val[1] = "file")
                  /\ pc' = "run"
                  /\ UNCHANGED err
             ELSE /\ Exit(dev.err)
                  /\ UNCHANGED <<output, created>>
  /\ UNCHANGED <<input_args, other_args, args, response, json_response,
                 flags_seen, reads, calls, events>>


\* ------------------------------------------------------ the call (l.125)

\* run_algorithm (l.267-281): the one call, with the body and the content
\* type of the payload; result is what the client gives back.
run_algorithm(algo, input_data, options, result) ==
  [call |-> [algo |-> algo, mime |-> MimeOf(input_data),
             body |-> input_data.data, opts |-> options],
   err |-> IF result = None THEN "call_error" ELSE "none",
   val |-> result]

RunAlgorithm(responses) ==
  /\ pc = "run"
  /\ \E result \in {None} \cup {Some(r) : r \in responses} :
       LET ran == run_algorithm(args.arg_algorithm, input_args[1], opts, result)
       IN  /\ calls' = Append(calls, ran.call)
           /\ response' = ran.val
           /\ IF ran.err = "none"
                THEN pc' = "read" /\ UNCHANGED err
                ELSE Exit(ran.err)
  /\ input_args' = Tail(input_args)
  /\ UNCHANGED <<other_args, args, opts, output, json_response, flags_seen,
                 reads, created, events>>

\* response.read_to_string(&mut json_response) (l.128-133): a body that is
\* not UTF-8, or that cannot be read, is a read error.
ReadBody ==
  /\ pc = "read"
  /\ \E readOk \in BOOLEAN :
       IF readOk /\ ValidUtf8(response[1].body)
         THEN /\ json_response' = response[1].body
              /\ pc' = "render"
              /\ UNCHANGED err
         ELSE /\ Exit("read_error")
              /\ UNCHANGED json_response
  /\ UNCHANGED <<input_args, other_args, args, opts, output, response,
                 flags_seen, reads, created, calls, events>>

\* ------------------------------------------------- rendering (l.135-175)

\* OutputDevice::write (l.251-256): one write of bytes to the device's writer.
\* The writer takes the whole buffer or fails: an Ok(n) with n short of the
\* length, which l.253 would not notice, is not among the outcomes.
write(dev, what, bytes) ==
  <<[stream |-> dev, via |-> "device", what |-> what, bytes |-> bytes]>>

\* writeln without its newline.
writeln_NoNewline(dev, what, bytes) == write(dev, what, bytes)

\* OutputDevice::writeln (l.258-261).
writeln(dev, what, bytes) ==
  write(dev, what, bytes) \o write(dev, "newline", <<NL>>)

\* stderrln!("{}", alert) (l.149): the macro is defined outside run.rs; it is
\* taken to write its line to the diagnostics stream.
Stderrln(bytes) ==
  <<[stream |-> "stderr", via |-> "stderrln", what |-> "alert", bytes |-> bytes \o <<NL>>]>>

\* print!("{}", stdout) (l.157).
PrintStdout(bytes) ==
  <<[stream |-> "stdout", via |-> "print", what |-> "stdout", bytes |-> bytes]>>

\* println!("Completed in {:.1} seconds", duration) (l.163).
PrintlnMeta(ms) ==
  <<[stream |-> "stdout", via |-> "print", what |-> "meta",
     bytes |-> CompletedIn(ms) \o <<NL>>]>>

RECURSIVE Alerts(_)
\* for alert in alerts { stderrln!("{}", alert) } (l.148-150).
Alerts(alerts) ==
  IF alerts = <<>> THEN <<>> ELSE Stderrln(Head(alerts)) \o Alerts(Tail(alerts))

\* --response and --response-body (l.136-141).
RenderRaw(a, dev, resp, body) ==
  (IF a.flag_response THEN writeln(dev, "preamble", Preamble(resp)) ELSE <<>>)
    \o writeln(dev, "body", body)

\* The Ok arm with a Binary result written by writeln.
RenderDecoded_BinaryLine(a, dev, parsed) ==
  (IF parsed.alerts # None /\ ~a.flag_silence THEN Alerts(parsed.alerts[1]) ELSE <<>>)
    \o (IF parsed.stdout # None /\ a.flag_debug THEN PrintStdout(parsed.stdout[1]) ELSE <<>>)
    \o (IF a.flag_meta \/ (a.flag_output # None /\ ~a.flag_silence)
          THEN PrintlnMeta(parsed.duration) ELSE <<>>)
    \o (CASE parsed.result.kind = "Json" ->
               writeln(dev, "result", JsonToString(parsed.result.value))
          [] parsed.result.kind = "Text" -> writeln(dev, "result", parsed.result.value)
          [] parsed.result.kind = "Binary" -> writeln(dev, "result", parsed.result.value))

\* The Ok arm with --silence suppressing the metadata too.
RenderDecoded_SilentMeta(a, dev, parsed) ==
  (IF parsed.alerts # None /\ ~a.flag_silence THEN Alerts(parsed.alerts[1]) ELSE <<>>)
    \o (IF parsed.stdout # None /\ a.flag_debug THEN PrintStdout(parsed.stdout[1]) ELSE <<>>)
    \o (IF (a.flag_meta \/ a.flag_output # None) /\ ~a.flag_silence
          THEN PrintlnMeta(parsed.duration) ELSE <<>>)
    \o (CASE parsed.result.kind = "Json" ->
               writeln(dev, "result", JsonToString(parsed.result.value))
          [] parsed.result.kind = "Text" -> writeln(dev, "result", parsed.result.value)
          [] parsed.result.kind = "Binary" -> write(dev, "result", parsed.result.value))

\* The Ok arm of the parse (l.144-172): alerts, the algorithm's stdout, the
\* metadata, then the result.
RenderDecoded(a, dev, parsed) ==
  (IF parsed.alerts # None /\ ~a.flag_silence THEN Alerts(parsed.alerts[1]) ELSE <<>>)
    \o (IF parsed.stdout # None /\ a.flag_debug THEN PrintStdout(parsed.stdout[1]) ELSE <<>>)
    \o (IF a.flag_meta \/ (a.flag_output # None /\ ~a.flag_silence)
          THEN PrintlnMeta(parsed.duration) ELSE <<>>)
    \o (CASE parsed.result.kind = "Json" ->
               writeln(dev, "result", JsonToString(parsed.result.value))
          [] parsed.result.kind = "Text" -> writeln(dev, "result", parsed.result.value)
          [] parsed.result.kind = "Binary" -> write(dev, "result", parsed.result.value))

\* json_response.parse::<AlgoResponse>() (l.143): the envelope the client
\* library reads in the body, None when the body is no envelope.
ParseAlgoResponse(resp) == resp.envelope

\* The body parsed unless --response is given: --response-body alone decodes.
Decodes_ResponseOnly(a) == ~a.flag_response

\* Whether the rendering parses the body (l.136, l.142-143).
Decodes(a) == ~(a.flag_response \/ a.flag_response_body)

\* What the rendering writes when no write fails.
RenderPlan(a, dev, resp, body) ==
  IF ~Decodes(a) THEN RenderRaw(a, dev, resp, body)
  ELSE IF ParseAlgoResponse(resp) = None THEN <<>>
  ELSE RenderDecoded(a, dev, ParseAlgoResponse(resp)[1])

DeviceWrites(plan) == Cardinality({i \in 1..Len(plan) : plan[i].via = "device"})

RECURSIVE UntilFailure(_, _)
\* The writes of plan that happen when the device's k+1st write fails.
UntilFailure(plan, k) ==
  IF plan = <<>> THEN <<>>
  ELSE IF Head(plan).via = "device"
    THEN (IF k = 0 THEN <<>> ELSE <<Head(plan)>> \o UntilFailure(Tail(plan), k - 1))
    ELSE <<Head(plan)>> \o UntilFailure(Tail(plan), k)

\* l.135-175, then the end of cmd_main.  A write of the device may fail
\* (l.254), which ends the run after the writes before it.
Render ==
  /\ pc = "render"
  /\ LET plan == RenderPlan(args, output, response[1], json_response)
     IN  IF Decodes(args) /\ ParseAlgoResponse(response[1]) = None
           THEN Exit("response_error") /\ UNCHANGED events
           ELSE \E k \in 0..DeviceWrites(plan) :
                  /\ events' = events \o UntilFailure(plan, k)
                  /\ Exit(IF k < DeviceWrites(plan) THEN "write_error" ELSE "none")
  /\ UNCHANGED <<input_args, other_args, args, opts, output, response,
                 json_response, flags_seen, reads, created, calls>>

\* ----------------------------------------------------- the inputs explored

\* The responses the client gives back: a body and, when the body is an
\* envelope, what it holds.
HttpVersion == <<72, 84, 84, 80, 47, 49, 46, 49>>
HttpStatus == <<50, 48, 48, 32, 79, 75>>
HttpHeaders == <<65, 58, 32, 98, 13, 10>>

Results ==
  {[kind |-> "Json", value |-> JsonNumber(42)],
   [kind |-> "Json", value |-> JsonArray(<<1, 20>>)],
   [kind |-> "Text", value |-> <<97>>],
   [kind |-> "Binary", value |-> <<255, 10>>]}

Envelopes ==
  [alerts : {None, Some(<<(<<120>>), <<121, 122>>>>)},
   stdout : {None, Some(<<111, 117, 116>>)},
   duration : {1260},
   result : Results]

ResponsesOf(bodies, envelopes) ==
  [version : {HttpVersion}, status : {HttpStatus}, headers : {HttpHeaders},
   body : bodies, envelope : {None} \cup {Some(e) : e \in envelopes}]
    \cup
  [version : {HttpVersion}, status : {HttpStatus}, headers : {HttpHeaders},
   body : {<<255>>}, envelope : {None}]

Responses == ResponsesOf({<<123, 125>>, <<123, 125, 10>>}, Envelopes)

FewResponses ==
  ResponsesOf({<<123, 125>>},
              {e \in Envelopes : e.alerts = None /\ e.stdout # None})

RECURSIVE Prefixes(_)
Prefixes(s) == IF s = <<>> THEN {<<>>} ELSE {s} \cup Prefixes(SubSeq(s, 1, Len(s) - 1))

\* The leading parts of the argument lists of a set: the loop meets a list
\* token by token.
Leading(lists) == UNION {Prefixes(l) : l \in lists}

\* Argument lists without their input-selecting options: few options, well
\* formed and not.
FewOptions ==
  {<<"algo", "run">> \o pos \o rest :
     pos \in {<<>>, <<"u/a">>, <<"u/a", "f">>},
     rest \in {<<>>, <<"--response-body">>, <<"--output", "f">>, <<"-o">>,
               <<"--timeout", "1">>, <<"--timeout", "f">>, <<"-s", "--silence">>}}

\* No option: the algorithm, or nothing.
NoOptions == {<<"algo", "run">>, <<"algo", "run", "u/a">>}

LeadingFew == Leading(FewOptions)
LeadingNone == Leading(NoOptions)

RECURSIVE Picked(_, _)
\* The tokens of order that are in the set chosen, in order's order.
Picked(order, chosen) ==
  IF order = <<>> THEN <<>>
  ELSE (IF Head(order) \in chosen THEN <<Head(order)>> ELSE <<>>)
         \o Picked(Tail(order), chosen)

\* Every combination of the output options, after the algorithm.
AllOptions ==
  {<<"algo", "run", "u/a">>
     \o Picked(<<"--response", "--response-body", "-s", "-m", "--debug">>, chosen) \o out :
     chosen \in SUBSET {"--response", "--response-body", "-s", "-m", "--debug"},
     out \in {<<>>, <<"-o", "f">>}}

\* Every input-selecting option, in lists of at most MaxFlags of them; the
\* lists of two or more carry no output option.
AnyInput ==
  [flags |-> InputFlags, data |-> {"-", "1", "-j"}, paths |-> {"-", "f"},
   contents |-> {<<49>>, <<97>>, <<255>>},
   others |-> [n \in 0..(MaxFlags + 1) |->
                 IF n > MaxFlags THEN {}
                 ELSE IF n > 1 THEN LeadingNone
                 ELSE LeadingFew]]

Next ==
  \/ ScanArg(AnyInput)
  \/ ParseArgs
  \/ Validate
  \/ OpenOutput
  \/ RunAlgorithm(FewResponses)
  \/ ReadBody
  \/ Render

Spec == Init /\ [][Next]_vars

\* One input, under every combination of the output options.
LeadingAll == Leading(AllOptions)
OneInput ==
  [flags |-> {"-t", "--binary-file"}, data |-> {"1"}, paths |-> {"f"},
   contents |-> {<<255>>},
   others |-> [n \in 0..2 |-> IF n > 1 THEN {} ELSE LeadingAll]]

NextRender ==
  \/ ScanArg(OneInput)
  \/ ParseArgs
  \/ Validate
  \/ OpenOutput
  \/ RunAlgorithm(Responses)
  \/ ReadBody
  \/ Render

SpecRender == Init /\ [][NextRender]_vars

\* The auto-detecting options, over every content of at most MaxLen bytes.
ByteAlphabet == {49, 91, 93, 32, 34, 97, 195, 169, 255}
AutoContents == SeqsUpTo(ByteAlphabet, MaxLen)
AutoInput ==
  [flags |-> {"-d", "--data", "-D", "--data-file"},
   data |-> {"-", "1", "f", "u/a", "-j", "[1]", "true", "tru", "1 1"},
   paths |-> {"-", "f"},
   contents |-> AutoContents,
   others |-> [n \in 0..2 |-> IF n > 1 THEN {} ELSE LeadingNone]]

NextAuto ==
  \/ ScanArg(AutoInput)
  \/ ParseArgs
  \/ Validate
  \/ OpenOutput
  \/ RunAlgorithm(FewResponses)
  \/ ReadBody
  \/ Render

SpecAuto == Init /\ [][NextAuto]_vars
\* ------------------------------------------------------------- properties

Exited == pc = "exit"
Succeeded == pc = "exit" /\ err = "none"

\* The writes made through the OutputDevice, and their bytes.
DeviceEvents == SelectSeq(events, LAMBDA e : e.via = "device")
BytesOf(es) == Concat([i \in 1..Len(es) |-> es[i].bytes])
DeviceBytes == BytesOf(DeviceEvents)
Whats(es) == [i \in 1..Len(es) |-> es[i].what]

FlagsMet == Len(flags_seen)
Reading(src) == {i \in 1..Len(reads) : reads[i].src = src}

\* Byte sequences of each class, written out.
KnownJson == {<<49>>, <<49, 49>>, <<32, 49>>, <<49, 32>>, <<91, 93>>, <<34, 34>>,
              <<91, 49, 93>>, <<116, 114, 117, 101>>}
KnownText == {<<>>, <<97>>, <<32>>, <<91>>, <<34>>, <<49, 97>>, <<195, 169>>, <<45>>,
              <<116, 114, 117>>, <<49, 32, 49>>, <<117, 47, 97>>, <<45, 106>>}
KnownBinary == {<<255>>, <<195>>, <<169>>, <<49, 255>>, <<195, 49>>, <<169, 195>>}
\* C1: -d/--data and -D/--data-file classify what they read in three ways, in
\* order: Json when it is UTF-8 and parses as JSON, else Text when it is
\* UTF-8, else Binary; whenever the read succeeds a payload results, and it
\* holds the bytes read, unchanged.
C1_AutoClassification ==
  (FlagsMet = 1 /\ flags_seen[1].kind \in {"data", "data-file"}
     /\ flags_seen[1].val # NoArg /\ Len(reads) = 1 /\ reads[1].ok
     /\ pc \in {"scan", "validate", "output", "run"})
  => /\ Len(input_args) = 1
     /\ LET b == reads[1].bytes
            x == input_args[1]
        IN  /\ x.data = b
            /\ x.kind = (IF ValidUtf8(b) /\ ParsesAsJson(b) THEN "Json"
                         ELSE IF ValidUtf8(b) THEN "Text" ELSE "Binary")
            /\ b \in KnownJson => x.kind = "Json"
            /\ b \in KnownText => x.kind = "Text"
            /\ b \in KnownBinary => x.kind = "Binary"

\* A file read by --data-file holds `[`, which is UTF-8 and no JSON: Text.
C1_Witness ==
  /\ FlagsMet = 1 /\ flags_seen[1].kind = "data-file"
  /\ Len(input_args) = 1 /\ input_args[1] = Text(<<91>>)
  /\ reads[1].bytes = <<91>>

\* C2 as stated: an argument list whose input-selecting options are not
\* exactly one ends before any call, with "must specify an input" for none
\* and with "multiple input sources" for two or more.
C2_Original ==
  (Exited /\ FlagsMet # 1)
  => /\ calls = <<>>
     /\ FlagsMet = 0 => err = "no_input"
     /\ FlagsMet >= 2 => err = "multiple_input"

\* C2 as amended: no call is made, and no output file created, unless the
\* argument list holds exactly one input-selecting option.  A list with none
\* or with several ends with no call, in one of the errors that precede the
\* call; when every option has its value, every source is read and the other
\* arguments parse, the error is "must specify an input" for none and
\* "multiple input sources" for several; no source is ever chosen.
C2_Amended ==
  /\ (calls # <<>> \/ created \/ pc \in {"output", "run", "read", "render"})
       => FlagsMet = 1
  /\ (Exited /\ FlagsMet # 1)
       => /\ calls = <<>>
          /\ err \in {"missing_arg", "open_error", "read_error", "usage",
                      "no_input", "multiple_input"}
          /\ err = "no_input" => FlagsMet = 0
          /\ err = "multiple_input" => FlagsMet >= 2
          /\ (Len(input_args) = FlagsMet /\ args # NoArgs)
               => err = (IF FlagsMet = 0 THEN "no_input" ELSE "multiple_input")

\* Two sources, both read, and the other arguments well formed.
C2_Witness ==
  /\ Exited /\ err = "multiple_input" /\ FlagsMet = 2
  /\ Len(input_args) = 2 /\ args.arg_algorithm = "u/a" /\ calls = <<>>

C4_Original ==
  \A i \in 1..Len(events) :
    events[i].what \in {"alert", "stdout", "meta"}
      => events[i].stream = "stderr" /\ events[i].stream # output

\* C5: with --response or --response-body the body is never parsed: no
\* alert, stdout or duration line, no result, no response error, whatever the
\* other options; with both, the preamble and the body are written once each,
\* preamble first.  Only without both is anything of the decoded form written.
C5_RenderPrecedence ==
  /\ (args.flag_response \/ args.flag_response_body)
       => /\ err # "response_error"
          /\ \A i \in 1..Len(events) :
               events[i].what \in {"preamble", "body", "newline"}
          /\ Succeeded
               => Whats(events) =
                    (IF args.flag_response THEN <<"preamble", "newline">> ELSE <<>>)
                      \o <<"body", "newline">>
  /\ (err = "response_error"
        \/ \E i \in 1..Len(events) :
             events[i].what \in {"alert", "stdout", "meta", "result"})
       => (~args.flag_response /\ ~args.flag_response_body)

\* Both options, with every other one, over a body that is no envelope.
C5_Witness ==
  /\ Succeeded /\ args.flag_response /\ args.flag_response_body
  /\ args.flag_silence /\ args.flag_meta /\ args.flag_debug
  /\ args.flag_output # None
  /\ response[1].envelope = None

C7_CallCarriesPayload ==
  calls # <<>>
  => /\ Len(calls) = 1 /\ FlagsMet = 1
     /\ LET c == calls[1]
            f == flags_seen[1]
            source == IF f.kind \in {"json", "text", "binary"}
                        THEN TokBytes(f.val) ELSE reads[1].bytes
        IN  /\ c.body = source
            /\ f.kind \in {"json", "json-file"} => c.mime = "application/json"
            /\ f.kind \in {"text", "text-file"} => c.mime = "text/plain"
            /\ f.kind \in {"binary", "binary-file"} => c.mime = "application/octet-stream"
            /\ f.kind \in {"data", "data-file"} =>
                 c.mime = (IF ~ValidUtf8(source) THEN "application/octet-stream"
                           ELSE IF ParsesAsJson(source) THEN "application/json"
                           ELSE "text/plain")
            /\ c.algo = args.arg_algorithm
            /\ c.opts = [stdout |-> args.flag_debug, timeout |-> args.flag_timeout]

\* --json with data that is no JSON, sent as application/json all the same.
C7_Witness ==
  /\ Len(calls) = 1 /\ flags_seen[1] = [kind |-> "json", val |-> "-j"]
  /\ calls[1].mime = "application/json" /\ calls[1].body = <<45, 106>>
  /\ ~ParsesAsJson(calls[1].body)

\* C8 as stated: standard input is read at most once and at most one input
\* file is opened, also for the argument lists that are rejected.
C8_Original ==
  /\ Cardinality(Reading("stdin")) <= 1
  /\ Cardinality(Reading("file")) <= 1

\* C9: a decoded response is rendered in this order: the alerts, one a line,
\* iff --silence is not given; the algorithm's stdout iff --debug is given
\* and there is one; the duration line iff --meta is given, or --output is
\* and --silence is not; then the result, always and last.
C9_DecodedOrder ==
  (Succeeded /\ ~args.flag_response /\ ~args.flag_response_body)
  => LET e == response[1].envelope[1]
         nAlerts == IF e.alerts # None /\ ~args.flag_silence THEN Len(e.alerts[1]) ELSE 0
         nStdout == IF args.flag_debug /\ e.stdout # None THEN 1 ELSE 0
         nMeta == IF args.flag_meta \/ (args.flag_output # None /\ ~args.flag_silence)
                    THEN 1 ELSE 0
         nBefore == nAlerts + nStdout + nMeta
     IN  /\ Len(events) > nBefore
         /\ \A i \in 1..nAlerts :
              /\ events[i].what = "alert"
              /\ events[i].bytes = e.alerts[1][i] \o <<10>>
         /\ nStdout = 1 =>
              /\ events[nAlerts + 1].what = "stdout"
              /\ events[nAlerts + 1].bytes = e.stdout[1]
         /\ nMeta = 1 =>
              /\ events[nBefore].what = "meta"
              /\ events[nBefore].bytes[Len(events[nBefore].bytes)] = 10
         /\ events[nBefore + 1].what = "result"
         /\ \A i \in (nBefore + 1)..Len(events) :
              events[i].via = "device" /\ events[i].stream = output
         /\ \A i \in 1..nBefore : events[i].via # "device"

\* --silence with --meta and --debug: no alert, the stdout, the duration line
\* and the result.
C9_Witness ==
  /\ Succeeded /\ ~args.flag_response /\ ~args.flag_response_body
  /\ args.flag_silence /\ args.flag_meta /\ args.flag_debug
  /\ response[1].envelope[1].alerts # None
  /\ response[1].envelope[1].stdout # None
  /\ Whats(events) = <<"stdout", "meta", "result", "newline">>

\* What C10 says of a state: a call is made only with the device open, the file is created
\* only for an argument list that passed the validation, a file that cannot
\* be created ends the run with no call, and a failed call or a body that is
\* no envelope leaves the created file with nothing written.
C10_State ==
  /\ calls # <<>> => (output # "none" /\ (args.flag_output # None => created))
  /\ created => (FlagsMet = 1 /\ Len(reads) <= 1 /\ args # NoArgs
                   /\ err \notin {"no_input", "multiple_input", "usage", "missing_arg"})
  /\ err = "create_error" => (calls = <<>> /\ ~created)
  /\ (err \in {"call_error", "response_error"} /\ args.flag_output # None)
       => (created /\ Len(calls) = 1 /\ events = <<>>)

\* C10: C10_State in every state; and the step that makes the call finds the
\* device open (the file created), the step that creates the file finds no
\* call made.
C10_OutputBeforeCall ==
  /\ []C10_State
  /\ [][calls' # calls
          => (pc = "run" /\ output # "none" /\ (args.flag_output # None => created))]_vars
  /\ [][created' # created => (pc = "output" /\ calls = <<>>)]_vars

\* A body that is no envelope, with --output: the file is there, and empty.
C10_Witness ==
  /\ err = "response_error" /\ created /\ args.flag_output = Some("f")
  /\ Len(calls) = 1 /\ events = <<>>
====
